---- MODULE Spec2Model ----
(***************************************************************************)
(* Model of the two Slashtag classes of the repository:                    *)
(*   impl = "core": the Hyperswarm based Slashtag (src/unnamed/part_000)   *)
(*   impl = "pkg" : the DHT based Slashtag (src/packages/slashtag/index.js)*)
(* Every pending async call is a task: a stack of frames, each suspended   *)
(* at one of its method's awaits.  One action runs the synchronous code    *)
(* between two awaits, as the JavaScript event loop does.  A call that has *)
(* returned leaves the task list and its outcome is kept in g.results.     *)
(***************************************************************************)
EXTENDS Integers, Sequences, FiniteSets, TLC

\* ------------------------------------------------------------------ bounds
MaxCalls == 3
MaxConns == 2
MaxListeners == 1
MaxProtocolCalls == 2
MaxOptsProtocols == 1
MaxListenCalls == 2
MaxDepth == 4
NumPeers == 1
NumDriveNames == 1
NumProtocols == 1

Peers == 1..NumPeers
\* drive keys: OwnKey is the identity's key (public drive), the others are named drives
OwnKey == <<"own", 0>>
DriveKeys == {OwnKey} \cup {<<"name", i>> : i \in 1..NumDriveNames}
ProtocolNames == 1..NumProtocols
Events == {"close", "connection"}
\* the parts of the API a client program calls
Session == {"ready", "drive", "setProfile", "getProfile", "close"}
Listen == {"ready", "listen", "close"}
Network == {"ready", "connect", "close", "peers"}
Multiplex == {"ready", "protocol", "on", "close", "peers"}
Emitter == {"ready", "once", "off", "close", "peers"}
\* what is tried on a remote identity (one constructed without a key pair)
Remote == {"ready", "listen", "connect", "protocol", "setProfile", "close"}
Dht == {"listen", "unlisten", "connect", "close", "peers"}
DhtEvents == {"connect", "on", "once", "off", "close", "peers"}
\* a program that calls listen() again while it listens
Relisten == {"listen", "relisten", "unlisten", "close"}
\* programs whose store fails to close
Failing == {"ready", "listen", "close", "faults"}
FailingDht == {"connect", "close", "peers", "faults"}

VARIABLES
  impl,        \* which class is instantiated
  uses,        \* the methods the client program calls
  remote,      \* this.remote                      (core)
  shouldDestroyDHT, \* this._shouldDestroyDHT        (pkg)
  closed,      \* this.closed
  isReady,     \* this._ready                      (core)
  swarm,       \* this.swarm: 0 (undefined) or the index of a Hyperswarm in swarms
  publicDrive, \* this.publicDrive: NoDrive or a drive handle
  drives,      \* this._drives: drive key -> handle or NoDrive
  protocols,   \* this._protocols: protocol name -> instance or 0
  profile,     \* what the public drive stores under profile.json: 0 when absent
  swarms,      \* every Hyperswarm created so far
  conns,       \* every socket created so far
  sockets,     \* this.sockets, in insertion order  (pkg)
  listening,   \* this.listening                    (pkg)
  closing,     \* this._closing                     (pkg)
  listeners,   \* EventEmitter: event -> listeners in registration order
  tasks,       \* the pending async calls
  g            \* history: what the collaborators were asked to do, what calls returned

vars == <<impl, uses, remote, shouldDestroyDHT, closed, isReady, swarm, publicDrive,
          drives, protocols, profile, swarms, conns, sockets, listening, closing,
          listeners, tasks, g>>

\* ------------------------------------------------------------ values
\* what a call returns: a kind and, for a connection or a drive, which one
Undefined == <<"undefined", 0, 0>>
True == <<"true", 0, 0>>
Null == <<"null", 0, 0>>
\* the argument of a call: none, a peer key, or a drive key
NoArg == <<"none", 0>>
PeerArg(x) == <<"peer", x>>
Threw == <<"throw", 0, 0>>
ConnVal(c) == <<"conn", c, 0>>
\* a SlashDrive object: the call and the frame that constructed it
NoDrive == <<0, 0>>
DriveVal(h) == <<"drive", h[1], h[2]>>

\* a suspended call: fn at await pc, with its locals (a drive key or peer, the drive
\* handle h, the swarm s, and n: a socket or a place in an iteration)
Frame(fn, pc, key) ==
  [fn |-> fn, pc |-> pc, key |-> key, h |-> NoDrive, s |-> 0, n |-> 0]

NewSwarm == [destroyed |-> FALSE, listening |-> FALSE,
             conns |-> [x \in Peers |-> 0], peers |-> {}, topics |-> {}]

\* ------------------------------------------------------------ task helpers
Top(t) == tasks[t].stack[Len(tasks[t].stack)]
At(t, fn, pc) ==
  /\ t \in 1..Len(tasks)
  /\ Top(t).fn = fn
  /\ Top(t).pc = pc
SetTop(stk, f) == [stk EXCEPT ![Len(stk)] = f]
Pop(stk) == SubSeq(stk, 1, Len(stk) - 1)
\* the top frame returns v: the promise the caller awaits resolves with v
Return(tk, v) ==
  LET stk == Pop(tk.stack) IN
  IF stk = <<>> THEN [tk EXCEPT !.stack = <<>>, !.ret = v]
  ELSE [tk EXCEPT !.stack = stk, !.rv = v]

Results(op) == {r \in g.results : r.op = op}
\* some close() has resolved
CloseReturned == Results("close") # {}

NewTask(op, arg, stk) ==
  [id |-> g.calls + 1, op |-> op, arg |-> arg, stack |-> stk,
   ret |-> Undefined, rv |-> Undefined,
   late |-> CloseReturned,  \* the call was made after a close() had resolved
   fx |-> FALSE,            \* the call touched the transport or a registry
   net |-> FALSE,           \* the call asked the transport to connect
   prev |-> 0,              \* connect: the open connection an earlier connect returned
   init |-> TRUE,           \* ready, profile: session and public drive were there
   sess |-> FALSE,          \* the call created a Hyperswarm
   stale |-> FALSE]         \* connect: the socket it returned had closed
Outcome(tk) ==
  [op |-> tk.op, arg |-> tk.arg, ret |-> tk.ret, late |-> tk.late, fx |-> tk.fx, net |-> tk.net,
   prev |-> tk.prev, init |-> tk.init, sess |-> tk.sess, stale |-> tk.stale]
Remove(seq, i) == SubSeq(seq, 1, i - 1) \o SubSeq(seq, i + 1, Len(seq))

\* a call is made: it stays pending unless it returned at once
Start(tk, h) ==
  /\ g.calls < MaxCalls
  /\ tasks' = IF tk.stack = <<>> THEN tasks ELSE Append(tasks, tk)
  /\ g' = [h EXCEPT !.calls = @ + 1,
                    !.results = IF tk.stack = <<>> THEN @ \cup {Outcome(tk)} ELSE @]
\* task t has run up to its next await, or has returned
Step(t, tk, h) ==
  /\ tasks' = IF tk.stack = <<>> THEN Remove(tasks, t) ELSE [tasks EXCEPT ![t] = tk]
  /\ g' = [h EXCEPT !.results = IF tk.stack = <<>> THEN @ \cup {Outcome(tk)} ELSE @]

\* ------------------------------------------------------------ EventEmitter
\* emit(ev): every listener registered now is called once, in registration order
Emitted(ev, c) == [i \in 1..Len(listeners[ev]) |-> <<ev, listeners[ev][i].id, c>>]
\* the listeners after emit(ev): a listener registered with once() is removed
AfterEmit(ev) == [listeners EXCEPT ![ev] = SelectSeq(@, LAMBDA l : ~l.once)]

\* on(ev, listener)
On(ev) ==
  /\ "on" \in uses
  /\ g.registered[ev] < MaxListeners
  /\ listeners' = [listeners EXCEPT
                     ![ev] = Append(@, [id |-> g.registered[ev] + 1, once |-> FALSE])]
  /\ g' = [g EXCEPT !.registered[ev] = @ + 1]
  /\ UNCHANGED <<impl, uses, remote, shouldDestroyDHT, closed, isReady, swarm,
                 publicDrive, drives, protocols, profile, swarms, conns, sockets,
                 listening, closing, tasks>>

\* once(ev, listener)
Once(ev) ==
  /\ "once" \in uses
  /\ g.registered[ev] < MaxListeners
  /\ listeners' = [listeners EXCEPT
                     ![ev] = Append(@, [id |-> g.registered[ev] + 1, once |-> TRUE])]
  /\ g' = [g EXCEPT !.registered[ev] = @ + 1]
  /\ UNCHANGED <<impl, uses, remote, shouldDestroyDHT, closed, isReady, swarm,
                 publicDrive, drives, protocols, profile, swarms, conns, sockets,
                 listening, closing, tasks>>

\* off(ev, listener), for a listener that is registered
Off(ev, l) ==
  /\ "off" \in uses
  /\ \E i \in 1..Len(listeners[ev]) : listeners[ev][i].id = l
  /\ listeners' = [listeners EXCEPT ![ev] = SelectSeq(@, LAMBDA r : r.id # l)]
  /\ UNCHANGED <<impl, uses, remote, shouldDestroyDHT, closed, isReady, swarm,
                 publicDrive, drives, protocols, profile, swarms, conns, sockets,
                 listening, closing, tasks, g>>

\* ------------------------------------------------------------ core: ready()
\* ready() without its first line
ReadyNeverReturnsEarly == FALSE
\* `if (this._ready) return true`
ReadyEarlyReturn == isReady

\* the frames a call of ready() leaves suspended: none when it returns at once,
\* else one frame awaiting DHT.create()
ReadyCall == IF ReadyEarlyReturn THEN <<>> ELSE <<Frame("ready", "r_dht", OwnKey)>>
DhtCreate(h) == [h EXCEPT !.dhtCreated = @ + (IF ReadyEarlyReturn THEN 0 ELSE 1)]

Initialized == swarm # 0 /\ publicDrive # NoDrive

CallReady ==
  /\ impl = "core" /\ "ready" \in uses
  /\ Start([NewTask("ready", NoArg, ReadyCall) EXCEPT
              !.ret = IF ReadyEarlyReturn THEN True ELSE Undefined,
              !.init = ReadyEarlyReturn => Initialized],
           DhtCreate(g))
  /\ UNCHANGED <<impl, uses, remote, shouldDestroyDHT, closed, isReady, swarm,
                 publicDrive, drives, protocols, profile, swarms, conns, sockets,
                 listening, closing, listeners>>

\* DHT.create() resolved: lines 76-87 up to the await of this.drive(), which runs
\* up to its own `await this.ready()`: that call finds _ready as line 82 left it
ReadyDhtCreated(t) ==
  /\ At(t, "ready", "r_dht")
  /\ Len(tasks[t].stack) < MaxDepth
  /\ swarms' = Append(swarms, NewSwarm)
  /\ swarm' = Len(swarms) + 1
  /\ isReady' = TRUE
  /\ g' = [g EXCEPT !.wired = @ + 1,
                    !.overwritten = @ + (IF swarm # 0 THEN 1 ELSE 0),
                    !.dhtCreated = @ + (IF ReadyEarlyReturn' THEN 0 ELSE 1)]
  /\ tasks' = [tasks EXCEPT ![t].stack =
                 Append(SetTop(@, [Top(t) EXCEPT !.pc = "r_drive"]),
                        Frame("drive", "d_ready", OwnKey)) \o ReadyCall',
                            ![t].sess = TRUE]
  /\ UNCHANGED <<impl, uses, remote, shouldDestroyDHT, closed, publicDrive, drives,
                 protocols, profile, conns, sockets, listening, closing, listeners>>

\* this.drive() resolved: `this.publicDrive = await this.drive(...)`, then return
ReadyDriveResolved(t) ==
  /\ At(t, "ready", "r_drive")
  /\ publicDrive' = <<tasks[t].rv[2], tasks[t].rv[3]>>
  /\ Step(t, [Return(tasks[t], Undefined) EXCEPT
                !.init = IF tasks[t].op = "ready" THEN swarm # 0 /\ publicDrive' # NoDrive
                         ELSE @], g)
  /\ UNCHANGED <<impl, uses, remote, shouldDestroyDHT, closed, isReady, swarm, drives,
                 protocols, profile, swarms, conns, sockets, listening, closing,
                 listeners>>

\* ------------------------------------------------------------ core: drive()
CallDrive(k) ==
  /\ impl = "core" /\ "drive" \in uses
  /\ Start(NewTask("drive", k, <<Frame("drive", "d_ready", k)>> \o ReadyCall), DhtCreate(g))
  /\ UNCHANGED <<impl, uses, remote, shouldDestroyDHT, closed, isReady, swarm,
                 publicDrive, drives, protocols, profile, swarms, conns, sockets,
                 listening, closing, listeners>>

\* drive() that never finds a cached handle
DriveNeverCached(k) == NoDrive
\* `const existing = this._drives.get(drive.key)`
DriveExisting(k) == drives[k]

\* _setupDiscovery up to its first await: `this.swarm?.join(drive.discoveryKey, opts)`
SetupDiscovery(k) ==
  /\ swarms' = IF swarm # 0 THEN [swarms EXCEPT ![swarm].topics = @ \cup {k}] ELSE swarms
  /\ g' = [g EXCEPT !.joins[k] = @ + (IF swarm # 0 THEN 1 ELSE 0)]

\* `await this.ready()` and `await drive.ready()` resolved (the code between them only
\* constructs the SlashDrive): lines 197-203 up to the await of drive.update()
DriveOpened(t) ==
  /\ At(t, "drive", "d_ready")
  /\ LET k == Top(t).key
         h == <<tasks[t].id, Len(tasks[t].stack)>> IN
     IF DriveExisting(k) # NoDrive
     THEN /\ Step(t, Return(tasks[t], DriveVal(DriveExisting(k))), g)
          /\ UNCHANGED <<drives, swarms>>
     ELSE /\ drives' = [drives EXCEPT ![k] = h]
          /\ SetupDiscovery(k)
          /\ tasks' = [tasks EXCEPT ![t].stack = SetTop(@, [Top(t) EXCEPT !.pc = "d_update", !.h = h]),
                                    ![t].fx = TRUE]
  /\ UNCHANGED <<impl, uses, remote, shouldDestroyDHT, closed, isReady, swarm,
                 publicDrive, protocols, profile, conns, sockets, listening, closing,
                 listeners>>

\* drive.update() resolved: `return drive`
DriveUpdated(t) ==
  /\ At(t, "drive", "d_update")
  /\ Step(t, Return(tasks[t], DriveVal(Top(t).h)), g)
  /\ UNCHANGED <<impl, uses, remote, shouldDestroyDHT, closed, isReady, swarm,
                 publicDrive, drives, protocols, profile, swarms, conns, sockets,
                 listening, closing, listeners>>

\* ------------------------------------------------------------ core: protocol()
\* protocol() that never finds a registered instance
ProtocolNeverCached(reg, name) == 0
\* `let protocol = this._protocols?.get(name); if (protocol) return protocol`
ProtocolCached(reg, name) == reg[name]

\* protocol(Protocol) on a local identity, as a function of the registry and the
\* history st = [protocols, instances, constructed, returned]
Register(st, name) ==
  IF ProtocolCached(st.protocols, name) # 0
  THEN [st EXCEPT !.returned[name] = @ \cup {ProtocolCached(st.protocols, name)}]
  ELSE [st EXCEPT !.protocols[name] = st.instances + 1,
                  !.instances = @ + 1,
                  !.constructed[name] = @ + 1,
                  !.returned[name] = @ \cup {st.instances + 1}]

\* the constructor: `opts.protocols?.forEach((p) => this.protocol(p))`
RECURSIVE RegisterAll(_, _)
RegisterAll(st, names) ==
  IF names = <<>> THEN st ELSE RegisterAll(Register(st, Head(names)), Tail(names))

NoProtocols ==
  [protocols |-> [n \in ProtocolNames |-> 0], instances |-> 0,
   constructed |-> [n \in ProtocolNames |-> 0],
   returned |-> [n \in ProtocolNames |-> {}]]

Protocol(name) ==
  /\ impl = "core" /\ "protocol" \in uses
  /\ g.protocolCalls[name] < MaxProtocolCalls
  /\ IF remote
     THEN /\ g' = [g EXCEPT !.protocolCalls[name] = @ + 1]
          /\ UNCHANGED protocols
     ELSE LET st == Register([protocols |-> protocols, instances |-> g.instances,
                              constructed |-> g.constructed, returned |-> g.returned], name)
          IN /\ protocols' = st.protocols
             /\ g' = [g EXCEPT !.protocolCalls[name] = @ + 1,
                               !.instances = st.instances,
                               !.constructed = st.constructed,
                               !.returned = st.returned,
                               !.lateRegistered = @ \/ (CloseReturned /\ st.protocols # protocols)]
  /\ UNCHANGED <<impl, uses, remote, shouldDestroyDHT, closed, isReady, swarm,
                 publicDrive, drives, profile, swarms, conns, sockets, listening,
                 closing, listeners, tasks>>

\* ------------------------------------------------------------ core: setProfile(), getProfile()
CallSetProfile ==
  /\ impl = "core" /\ "setProfile" \in uses
  /\ Start(NewTask("setProfile", NoArg, <<Frame("setProfile", "p_ready", OwnKey)>> \o ReadyCall),
           DhtCreate(g))
  /\ UNCHANGED <<impl, uses, remote, shouldDestroyDHT, closed, isReady, swarm,
                 publicDrive, drives, protocols, profile, swarms, conns, sockets,
                 listening, closing, listeners>>

CallGetProfile ==
  /\ impl = "core" /\ "getProfile" \in uses
  /\ Start(NewTask("getProfile", NoArg, <<Frame("getProfile", "p_ready", OwnKey)>> \o ReadyCall),
           DhtCreate(g))
  /\ UNCHANGED <<impl, uses, remote, shouldDestroyDHT, closed, isReady, swarm,
                 publicDrive, drives, protocols, profile, swarms, conns, sockets,
                 listening, closing, listeners>>

\* ready() resolved: `return this.publicDrive?.put(DRIVE_KEYS.profile, ...)`.  Nothing
\* is put when publicDrive is undefined; a drive opened without a key pair is not
\* writable and its put rejects
SetProfileReadyResolved(t) ==
  /\ At(t, "setProfile", "p_ready")
  /\ profile' = IF publicDrive = NoDrive \/ remote THEN profile ELSE 1
  /\ IF publicDrive = NoDrive
     THEN Step(t, [Return(tasks[t], Undefined) EXCEPT !.init = FALSE], g)
     ELSE /\ tasks' = [tasks EXCEPT ![t].stack = SetTop(@, [Top(t) EXCEPT !.pc = "p_put"])]
          /\ UNCHANGED g
  /\ UNCHANGED <<impl, uses, remote, shouldDestroyDHT, closed, isReady, swarm,
                 publicDrive, drives, protocols, swarms, conns, sockets, listening,
                 closing, listeners>>

\* the promise of put() settled: setProfile() settles as it did
SetProfilePut(t) ==
  /\ At(t, "setProfile", "p_put")
  /\ Step(t, Return(tasks[t], IF remote THEN Threw ELSE Undefined), g)
  /\ UNCHANGED <<impl, uses, remote, shouldDestroyDHT, closed, isReady, swarm,
                 publicDrive, drives, protocols, profile, swarms, conns, sockets,
                 listening, closing, listeners>>

\* ready() resolved: `const result = await this.publicDrive?.get(DRIVE_KEYS.profile)`
GetProfileReadyResolved(t) ==
  /\ At(t, "getProfile", "p_ready")
  /\ tasks' = [tasks EXCEPT ![t].stack = SetTop(@, [Top(t) EXCEPT !.pc = "p_get"]),
                            ![t].init = publicDrive # NoDrive]
  /\ UNCHANGED <<impl, uses, remote, shouldDestroyDHT, closed, isReady, swarm,
                 publicDrive, drives, protocols, profile, swarms, conns, sockets,
                 listening, closing, listeners, g>>

\* get() resolved: `if (!result) return null; return JSON.parse(b4a.toString(result))`
GetProfileGot(t) ==
  /\ At(t, "getProfile", "p_get")
  /\ Step(t, Return(tasks[t], IF ~tasks[t].init \/ profile = 0 THEN Null
                              ELSE <<"profile", profile, 0>>), g)
  /\ UNCHANGED <<impl, uses, remote, shouldDestroyDHT, closed, isReady, swarm,
                 publicDrive, drives, protocols, profile, swarms, conns, sockets,
                 listening, closing, listeners>>

\* ------------------------------------------------------------ core: listen()
\* listen() up to `await this.ready()`
CallListen ==
  /\ impl = "core" /\ "listen" \in uses
  /\ IF remote
     THEN Start([NewTask("listen", NoArg, <<>>) EXCEPT !.ret = Threw], g)
     ELSE Start(NewTask("listen", NoArg, <<Frame("listen", "l_ready", OwnKey)>> \o ReadyCall),
                DhtCreate(g))
  /\ UNCHANGED <<impl, uses, remote, shouldDestroyDHT, closed, isReady, swarm,
                 publicDrive, drives, protocols, profile, swarms, conns, sockets,
                 listening, closing, listeners>>

\* ready() resolved: `return this.swarm.listen()`.  A Hyperswarm that listens
\* already keeps its server
ListenReadyResolved(t) ==
  /\ At(t, "listen", "l_ready")
  /\ swarms' = IF swarm = 0 THEN swarms ELSE [swarms EXCEPT ![swarm].listening = TRUE]
  /\ IF swarm = 0
     THEN Step(t, Return(tasks[t], Threw), g)
     ELSE /\ tasks' = [tasks EXCEPT ![t].stack = SetTop(@, [Top(t) EXCEPT !.pc = "l_listen"]),
                                    ![t].fx = TRUE]
          /\ g' = [g EXCEPT !.listens = @ + (IF swarms[swarm].listening THEN 0 ELSE 1)]
  /\ UNCHANGED <<impl, uses, remote, shouldDestroyDHT, closed, isReady, swarm,
                 publicDrive, drives, protocols, profile, conns, sockets, listening,
                 closing, listeners>>

\* the promise of swarm.listen() resolved: listen() resolves
ListenListening(t) ==
  /\ At(t, "listen", "l_listen")
  /\ Step(t, Return(tasks[t], Undefined), g)
  /\ UNCHANGED <<impl, uses, remote, shouldDestroyDHT, closed, isReady, swarm,
                 publicDrive, drives, protocols, profile, swarms, conns, sockets,
                 listening, closing, listeners>>

\* the promise of swarm.listen() rejected: listen() rejects
ListenRejected(t) ==
  /\ "faults" \in uses
  /\ At(t, "listen", "l_listen")
  /\ Step(t, Return(tasks[t], Threw), g)
  /\ UNCHANGED <<impl, uses, remote, shouldDestroyDHT, closed, isReady, swarm,
                 publicDrive, drives, protocols, profile, swarms, conns, sockets,
                 listening, closing, listeners>>

\* ------------------------------------------------------------ core: close()
\* close() without its guard
CloseAlwaysRuns == FALSE
\* `if (this.closed) return`
CloseEarlyReturn == closed

\* close() up to `await this.swarm?.destroy()`
CallClose ==
  /\ impl = "core" /\ "close" \in uses
  /\ IF CloseEarlyReturn
     THEN /\ Start(NewTask("close", NoArg, <<>>), [g EXCEPT !.closeCalls = @ + 1])
          /\ UNCHANGED <<closed, swarms, listeners>>
     ELSE /\ closed' = TRUE
          /\ listeners' = AfterEmit("close")
          /\ swarms' = IF swarm = 0 THEN swarms ELSE [swarms EXCEPT ![swarm].destroyed = TRUE]
          /\ Start(NewTask("close", NoArg,
                     IF swarm = 0 THEN <<>>
                     ELSE <<[Frame("close", "cl_destroy", OwnKey) EXCEPT !.s = swarm]>>),
                   [g EXCEPT !.closeCalls = @ + 1,
                             !.listens = 0,
                             !.atClose = Len(conns),
                             !.closeDone = (swarm = 0),
                             !.closeListeners = listeners["close"],
                             !.emits = @ \o Emitted("close", 0),
                             !.trace = @ \o <<<<"closed", 0>>, <<"emit", 0>>>>
                                         \o (IF swarm = 0 THEN <<>> ELSE <<<<"session", swarm>>>>)])
  /\ UNCHANGED <<impl, uses, remote, shouldDestroyDHT, isReady, swarm, publicDrive,
                 drives, protocols, profile, conns, sockets, listening, closing>>

\* swarm.destroy() resolved (every connection of the swarm has closed):
\* `await this.store.close()`
CloseSwarmDestroyed(t) ==
  /\ At(t, "close", "cl_destroy")
  /\ \A x \in Peers : swarms[Top(t).s].conns[x] = 0
  /\ g' = [g EXCEPT !.trace = Append(@, <<"store", 0>>)]
  /\ tasks' = [tasks EXCEPT ![t].stack = SetTop(@, [Top(t) EXCEPT !.pc = "cl_store"])]
  /\ UNCHANGED <<impl, uses, remote, shouldDestroyDHT, closed, isReady, swarm,
                 publicDrive, drives, protocols, profile, swarms, conns, sockets,
                 listening, closing, listeners>>

\* store.close() resolved
CloseStoreClosed(t) ==
  /\ At(t, "close", "cl_store")
  /\ Step(t, Return(tasks[t], Undefined), [g EXCEPT !.closeDone = TRUE])
  /\ UNCHANGED <<impl, uses, remote, shouldDestroyDHT, closed, isReady, swarm,
                 publicDrive, drives, protocols, profile, swarms, conns, sockets,
                 listening, closing, listeners>>

\* store.close() rejected: close() rejects
CloseStoreRejected(t) ==
  /\ "faults" \in uses
  /\ At(t, "close", "cl_store")
  /\ Step(t, Return(tasks[t], Threw), [g EXCEPT !.rejected = TRUE])
  /\ UNCHANGED <<impl, uses, remote, shouldDestroyDHT, closed, isReady, swarm,
                 publicDrive, drives, protocols, profile, swarms, conns, sockets,
                 listening, closing, listeners>>

\* ------------------------------------------------------------ core: connect()
\* `let connection = this.swarm?._allConnections.get(key)`
AllConnectionsGet(x) == IF swarm = 0 THEN 0 ELSE swarms[swarm].conns[x]

\* connect(key) up to `await this.ready()`; x = 0 stands for the identity's own key
CallConnect(x) ==
  /\ impl = "core" /\ "connect" \in uses
  /\ IF remote \/ x = 0
     THEN Start([NewTask("connect", PeerArg(x), <<>>) EXCEPT !.ret = Threw], g)
     ELSE Start([NewTask("connect", PeerArg(x), <<Frame("connect", "c_ready", x)>> \o ReadyCall)
                   EXCEPT !.prev = g.lastConn[x]], DhtCreate(g))
  /\ UNCHANGED <<impl, uses, remote, shouldDestroyDHT, closed, isReady, swarm,
                 publicDrive, drives, protocols, profile, swarms, conns, sockets,
                 listening, closing, listeners>>

\* ready() resolved: lines 117-128
ConnectReadyResolved(t) ==
  /\ At(t, "connect", "c_ready")
  /\ LET x == Top(t).key
         c == AllConnectionsGet(x) IN
     IF c # 0
     THEN /\ Step(t, Return(tasks[t], ConnVal(c)), [g EXCEPT !.lastConn[x] = c])
          /\ UNCHANGED swarms
     ELSE /\ swarms' = IF swarm = 0 THEN swarms
                       ELSE [swarms EXCEPT ![swarm].peers = @ \cup {x}]
          /\ g' = [g EXCEPT !.joinPeers[x] = @ + (IF swarm = 0 THEN 0 ELSE 1)]
          /\ tasks' = [tasks EXCEPT
               ![t].stack = SetTop(@, [Top(t) EXCEPT !.pc = "c_catch", !.s = swarm]),
               ![t].fx = TRUE, ![t].net = TRUE]
  /\ UNCHANGED <<impl, uses, remote, shouldDestroyDHT, closed, isReady, swarm,
                 publicDrive, drives, protocols, profile, conns, sockets, listening,
                 closing, listeners>>

\* catchConnection(swarm, key): the promise resolves with the connection to key
\* that swarm s announces
CatchConnection(tk, s, x, c) ==
  LET f == tk.stack[Len(tk.stack)] IN
  IF f.fn = "connect" /\ f.pc = "c_catch" /\ f.s = s /\ f.key = x
  THEN [tk EXCEPT !.stack = SetTop(@, [f EXCEPT !.pc = "c_caught", !.n = c])]
  ELSE tk

\* `return connection`
ConnectCaught(t) ==
  /\ At(t, "connect", "c_caught")
  /\ Step(t, Return(tasks[t], ConnVal(Top(t).n)),
          [g EXCEPT !.lastConn[Top(t).key] =
                      IF conns[Top(t).n].state = "open" THEN Top(t).n ELSE @])
  /\ UNCHANGED <<impl, uses, remote, shouldDestroyDHT, closed, isReady, swarm,
                 publicDrive, drives, protocols, profile, swarms, conns, sockets,
                 listening, closing, listeners>>

\* ------------------------------------------------------------ core: _handleConnection
\* _setupProtocols that creates no channel
SetupNoProtocols == {}
\* _setupProtocols: one channel per registered protocol
SetupProtocols == {n \in ProtocolNames : protocols[n] # 0}

\* _handleConnection that emits 'connection' before it creates the channels
EmitBeforeChannels(chs) ==
  <<"replicate", "emit">> \o [i \in 1..Cardinality(chs) |-> "channel"]
\* what _handleConnection does to a socket, in order: `this.store.replicate(socket)`,
\* `protocol.createChannel(socket, peerInfo)` for each protocol, `this.emit('connection')`
HandleConnection(chs) ==
  <<"replicate">> \o [i \in 1..Cardinality(chs) |-> "channel"] \o <<"emit">>

\* a Hyperswarm announces a connection to peer x (inbound or outbound):
\* _handleConnection(socket, peerInfo), synchronous
SwarmConnection(s, x) ==
  /\ impl = "core" /\ "peers" \in uses
  /\ s \in 1..Len(swarms)
  /\ ~swarms[s].destroyed
  /\ swarms[s].conns[x] = 0
  /\ x \in swarms[s].peers \/ swarms[s].topics # {} \/ swarms[s].listening
  /\ Len(conns) < MaxConns
  /\ LET c == Len(conns) + 1 IN
     /\ conns' = Append(conns, [peer |-> x, swarm |-> s, state |-> "open",
                               out |-> x \in swarms[s].peers, destroys |-> 0,
                               channels |-> SetupProtocols, rclosed |-> FALSE,
                               reg |-> {n \in ProtocolNames : protocols[n] # 0},
                               failed |-> FALSE,
                               log |-> HandleConnection(SetupProtocols)])
     /\ swarms' = [swarms EXCEPT ![s].conns[x] = c]
     /\ g' = [g EXCEPT !.emits = @ \o Emitted("connection", c)]
     /\ listeners' = AfterEmit("connection")
     /\ tasks' = [t \in 1..Len(tasks) |-> CatchConnection(tasks[t], s, x, c)]
  /\ UNCHANGED <<impl, uses, remote, shouldDestroyDHT, closed, isReady, swarm,
                 publicDrive, drives, protocols, profile, sockets, listening, closing>>

\* ------------------------------------------------------------ sockets
SockIndex(x) == IF \E i \in 1..Len(sockets) : sockets[i].key = x
                THEN CHOOSE i \in 1..Len(sockets) : sockets[i].key = x ELSE 0
\* this.sockets.get(key)
SocketsGet(x) == IF SockIndex(x) = 0 THEN 0 ELSE sockets[SockIndex(x)].sock
\* this.sockets.set(key, socket): an existing key keeps its place
SocketsSet(x, c) ==
  IF SockIndex(x) = 0 THEN Append(sockets, [key |-> x, sock |-> c])
  ELSE [sockets EXCEPT ![SockIndex(x)].sock = c]
\* a delete that forgets no socket
SocketsKeep(x) == sockets
\* this.sockets.delete(key)
SocketsDelete(x) == IF SockIndex(x) = 0 THEN sockets ELSE Remove(sockets, SockIndex(x))

\* a running `for (const socket of this.sockets.values())` keeps its place when
\* an entry it has passed is deleted
IterAfterDelete(tk, i) ==
  LET f == tk.stack[Len(tk.stack)] IN
  IF f.pc = "k_loop" /\ i # 0 /\ i <= f.n
  THEN [tk EXCEPT !.stack = SetTop(@, [f EXCEPT !.n = @ - 1])]
  ELSE tk

\* a socket whose close handler closes nothing
NoCloseHandler == FALSE
\* `socket.on('close', function () { peerInfo.slashtag.close() })`: the handler
\* closes the remote identity of the connection's peerInfo
ClosesPeerSlashtag == impl = "core"

\* a socket emits 'close'.  core: the swarm forgets it and the handler of line 264
\* closes peerInfo.slashtag.  pkg: the handler of line 113 deletes the entry of the
\* socket's remote public key
ConnClose(c) ==
  /\ "peers" \in uses
  /\ c \in 1..Len(conns)
  /\ conns[c].state # "closed"
  /\ conns' = [conns EXCEPT ![c].state = "closed",
                            ![c].failed = (conns[c].state = "opening"),
                            ![c].rclosed = ClosesPeerSlashtag]
  /\ swarms' = IF impl = "core" /\ swarms[conns[c].swarm].conns[conns[c].peer] = c
               THEN [swarms EXCEPT ![conns[c].swarm].conns[conns[c].peer] = 0]
               ELSE swarms
  /\ sockets' = IF impl = "pkg" THEN SocketsDelete(conns[c].peer) ELSE sockets
  /\ g' = [g EXCEPT !.lastConn[conns[c].peer] = IF @ = c THEN 0 ELSE @]
  /\ tasks' = [t \in 1..Len(tasks) |->
                 IF impl = "pkg"
                 THEN IterAfterDelete(tasks[t], SockIndex(conns[c].peer))
                 ELSE [tasks[t] EXCEPT !.prev = IF @ = c THEN 0 ELSE @]]
  /\ UNCHANGED <<impl, uses, remote, shouldDestroyDHT, closed, isReady, swarm,
                 publicDrive, drives, protocols, profile, listening, closing, listeners>>

\* ------------------------------------------------------------ pkg: listen(), unlisten()
\* `if (!this.listening) this.listening = this.server.listen(this.keyPair)`
PkgListen ==
  /\ impl = "pkg" /\ "listen" \in uses
  /\ listening => ("relisten" \in uses /\ g.listenCalls < MaxListenCalls)
  /\ listening' = TRUE
  /\ g' = [g EXCEPT !.listenCalls = @ + 1,
                    !.listens = @ + (IF listening THEN 0 ELSE 1)]
  /\ UNCHANGED <<impl, uses, remote, shouldDestroyDHT, closed, isReady, swarm,
                 publicDrive, drives, protocols, profile, swarms, conns, sockets,
                 closing, listeners, tasks>>

\* `this.listening = false; return this.server.close()`
PkgUnlisten ==
  /\ impl = "pkg" /\ "unlisten" \in uses
  /\ listening
  /\ listening' = FALSE
  /\ g' = [g EXCEPT !.listenCalls = 0, !.listens = 0]
  /\ UNCHANGED <<impl, uses, remote, shouldDestroyDHT, closed, isReady, swarm,
                 publicDrive, drives, protocols, profile, swarms, conns, sockets,
                 closing, listeners, tasks>>

\* ------------------------------------------------------------ pkg: connect(), _handleConnection
NewSocket(x, st, out) ==
  [peer |-> x, swarm |-> 0, state |-> st, out |-> out, destroys |-> 0,
   channels |-> {}, rclosed |-> FALSE, reg |-> {}, failed |-> FALSE,
   log |-> <<"replicate", "emit">>]

\* `const existing = this.sockets.get(_key); if (existing) return existing`
ConnectExisting(x) == SocketsGet(x)

\* connect(key), synchronous: lines 65-69 and _handleConnection
PkgConnect(x) ==
  /\ impl = "pkg" /\ "connect" \in uses
  /\ IF ConnectExisting(x) # 0
     THEN /\ Start([NewTask("connect", PeerArg(x), <<>>) EXCEPT
                      !.prev = g.lastConn[x], !.ret = ConnVal(ConnectExisting(x)),
                      !.stale = (conns[ConnectExisting(x)].state = "closed")],
                   [g EXCEPT !.lastConn[x] = ConnectExisting(x)])
          /\ UNCHANGED <<conns, sockets, listeners>>
     ELSE /\ Len(conns) < MaxConns
          /\ conns' = Append(conns, NewSocket(x, "opening", TRUE))
          /\ sockets' = SocketsSet(x, Len(conns) + 1)
          /\ listeners' = AfterEmit("connection")
          /\ Start([NewTask("connect", PeerArg(x), <<>>) EXCEPT
                      !.prev = g.lastConn[x], !.ret = ConnVal(Len(conns) + 1),
                      !.fx = TRUE, !.net = TRUE],
                   [g EXCEPT !.lastConn[x] = Len(conns) + 1,
                             !.dhtConnects[x] = @ + 1,
                             !.emits = @ \o Emitted("connection", Len(conns) + 1)])
  /\ UNCHANGED <<impl, uses, remote, shouldDestroyDHT, closed, isReady, swarm,
                 publicDrive, drives, protocols, profile, swarms, listening, closing>>

\* the server hands an inbound socket of peer x to _handleConnection
PkgInbound(x) ==
  /\ impl = "pkg" /\ "peers" \in uses
  /\ listening
  /\ Len(conns) < MaxConns
  /\ conns' = Append(conns, NewSocket(x, "open", FALSE))
  /\ sockets' = SocketsSet(x, Len(conns) + 1)
  /\ g' = [g EXCEPT !.emits = @ \o Emitted("connection", Len(conns) + 1)]
  /\ listeners' = AfterEmit("connection")
  /\ UNCHANGED <<impl, uses, remote, shouldDestroyDHT, closed, isReady, swarm,
                 publicDrive, drives, protocols, profile, swarms, listening, closing,
                 tasks>>

\* an outbound socket emits 'open'
SocketOpen(c) ==
  /\ "peers" \in uses
  /\ c \in 1..Len(conns)
  /\ conns[c].state = "opening"
  /\ conns' = [conns EXCEPT ![c].state = "open"]
  /\ UNCHANGED <<impl, uses, remote, shouldDestroyDHT, closed, isReady, swarm,
                 publicDrive, drives, protocols, profile, swarms, sockets, listening,
                 closing, listeners, tasks, g>>

\* ------------------------------------------------------------ pkg: close(), _close()
\* `if (this._closing) return this._closing`
ClosingEarlyReturn == closing

\* close(): _close() up to `await this.corestore.close()`, then removeAllListeners()
CallPkgClose ==
  /\ impl = "pkg" /\ "close" \in uses
  /\ IF ClosingEarlyReturn
     THEN /\ Start(NewTask("close", NoArg, <<Frame("close", "k_join", OwnKey)>>),
                   [g EXCEPT !.closeCalls = @ + 1])
          /\ UNCHANGED <<closing, listeners>>
     ELSE /\ closing' = TRUE
          /\ listeners' = [e \in Events |-> <<>>]
          /\ Start(NewTask("close", NoArg, <<Frame("_close", "k_store", OwnKey)>>),
                   [g EXCEPT !.closeCalls = @ + 1,
                             !.atClose = Len(conns),
                             !.closeListeners = listeners["close"],
                             !.trace = Append(@, <<"store", 0>>)])
  /\ UNCHANGED <<impl, uses, remote, shouldDestroyDHT, closed, isReady, swarm,
                 publicDrive, drives, protocols, profile, swarms, conns, sockets,
                 listening>>

\* a later close() returned the promise of the first one, which has resolved or
\* rejected
PkgCloseJoined(t) ==
  /\ At(t, "close", "k_join")
  /\ closed \/ g.rejected
  /\ Step(t, Return(tasks[t], IF closed THEN Undefined ELSE Threw), g)
  /\ UNCHANGED <<impl, uses, remote, shouldDestroyDHT, closed, isReady, swarm,
                 publicDrive, drives, protocols, profile, swarms, conns, sockets,
                 listening, closing, listeners>>

\* corestore.close() resolved: `await this.unlisten()`
PkgStoreClosed(t) ==
  /\ At(t, "_close", "k_store")
  /\ listening' = FALSE
  /\ g' = [g EXCEPT !.trace = Append(@, <<"unlisten", 0>>),
                    !.listenCalls = 0, !.listens = 0]
  /\ tasks' = [tasks EXCEPT ![t].stack = SetTop(@, [Top(t) EXCEPT !.pc = "k_unlisten"])]
  /\ UNCHANGED <<impl, uses, remote, shouldDestroyDHT, closed, isReady, swarm,
                 publicDrive, drives, protocols, profile, swarms, conns, sockets,
                 closing, listeners>>

\* corestore.close() rejected: _close() rejects and runs no further
PkgStoreRejected(t) ==
  /\ "faults" \in uses
  /\ At(t, "_close", "k_store")
  /\ Step(t, Return(tasks[t], Threw), [g EXCEPT !.rejected = TRUE])
  /\ UNCHANGED <<impl, uses, remote, shouldDestroyDHT, closed, isReady, swarm,
                 publicDrive, drives, protocols, profile, swarms, conns, sockets,
                 listening, closing, listeners>>

\* one turn of `for (const socket of this.sockets.values()) await socket.destroy()`
\* from place i of the iteration, or, past the last socket,
\* `await (this._shouldDestroyDHT && this.dht.destroy())`
CloseLoop(t, i) ==
  IF i < Len(sockets)
  THEN /\ conns' = [conns EXCEPT ![sockets[i + 1].sock].state = "destroying",
                                 ![sockets[i + 1].sock].destroys = @ + 1]
       /\ g' = [g EXCEPT !.trace = Append(@, <<"socket", sockets[i + 1].sock>>)]
       /\ tasks' = [tasks EXCEPT ![t].stack = SetTop(@, [Top(t) EXCEPT !.pc = "k_loop", !.n = i + 1])]
  ELSE /\ g' = [g EXCEPT !.trace = @ \o (IF shouldDestroyDHT THEN <<<<"session", 0>>>> ELSE <<>>)]
       /\ tasks' = [tasks EXCEPT ![t].stack = SetTop(@, [Top(t) EXCEPT !.pc = "k_dht"])]
       /\ UNCHANGED conns

\* unlisten() resolved: the loop starts
PkgUnlistened(t) ==
  /\ At(t, "_close", "k_unlisten")
  /\ CloseLoop(t, 0)
  /\ UNCHANGED <<impl, uses, remote, shouldDestroyDHT, closed, isReady, swarm,
                 publicDrive, drives, protocols, profile, swarms, sockets, listening,
                 closing, listeners>>

\* `await socket.destroy()` resumed: the loop goes on
PkgSocketDestroyed(t) ==
  /\ At(t, "_close", "k_loop")
  /\ CloseLoop(t, Top(t).n)
  /\ UNCHANGED <<impl, uses, remote, shouldDestroyDHT, closed, isReady, swarm,
                 publicDrive, drives, protocols, profile, swarms, sockets, listening,
                 closing, listeners>>

\* dht.destroy() resolved: `this.closed = true; this.emit('close')`
PkgDhtDestroyed(t) ==
  /\ At(t, "_close", "k_dht")
  /\ closed' = TRUE
  /\ listeners' = AfterEmit("close")
  /\ Step(t, Return(tasks[t], Undefined),
          [g EXCEPT !.emits = @ \o Emitted("close", 0),
                    !.closeDone = TRUE,
                    !.trace = @ \o <<<<"closed", 0>>, <<"emit", 0>>>>])
  /\ UNCHANGED <<impl, uses, remote, shouldDestroyDHT, isReady, swarm, publicDrive,
                 drives, protocols, profile, swarms, conns, sockets, listening, closing>>

\* ------------------------------------------------------------ specification
OptsProtocols ==
  UNION {[1..n -> ProtocolNames] : n \in 0..MaxOptsProtocols}

NoHistory ==
  [calls |-> 0, results |-> {}, listenCalls |-> 0, listens |-> 0,
   atClose |-> 0, closeDone |-> FALSE, rejected |-> FALSE,
   dhtCreated |-> 0, wired |-> 0, overwritten |-> 0,
   joins |-> [k \in DriveKeys |-> 0], joinPeers |-> [x \in Peers |-> 0],
   dhtConnects |-> [x \in Peers |-> 0], lastConn |-> [x \in Peers |-> 0],
   protocolCalls |-> [n \in ProtocolNames |-> 0], lateRegistered |-> FALSE,
   instances |-> 0, constructed |-> [n \in ProtocolNames |-> 0],
   returned |-> [n \in ProtocolNames |-> {}],
   registered |-> [e \in Events |-> 0],
   closeCalls |-> 0, closeListeners |-> <<>>, emits |-> <<>>, trace |-> <<>>]

\* the state the constructor leaves
Init ==
  /\ impl \in {"core", "pkg"}
  /\ uses \in (IF impl = "core" THEN {Session, Listen, Network, Multiplex, Emitter, Remote, Failing}
                ELSE {Dht, DhtEvents, Relisten, FailingDht})
  /\ remote = (uses = Remote)
  /\ shouldDestroyDHT \in (IF impl = "pkg" THEN BOOLEAN ELSE {TRUE})
  /\ closed = FALSE
  /\ isReady = FALSE
  /\ swarm = 0
  /\ publicDrive = NoDrive
  /\ drives = [k \in DriveKeys |-> NoDrive]
  /\ profile = 0
  /\ swarms = <<>>
  /\ conns = <<>>
  /\ sockets = <<>>
  /\ listening = FALSE
  /\ closing = FALSE
  /\ listeners = [e \in Events |-> <<>>]
  /\ tasks = <<>>
  /\ \E names \in (IF impl = "core" /\ ~remote /\ "protocol" \in uses
                   THEN OptsProtocols ELSE {<<>>}) :
       LET st == RegisterAll(NoProtocols, names) IN
       /\ protocols = st.protocols
       /\ g = [NoHistory EXCEPT !.instances = st.instances,
                                !.constructed = st.constructed,
                                !.returned = st.returned]

Next ==
  \/ \E e \in Events : On(e)
  \/ \E e \in Events : Once(e)
  \/ \E e \in Events, l \in 1..MaxListeners : Off(e, l)
  \/ CallReady
  \/ \E k \in DriveKeys : CallDrive(k)
  \/ CallSetProfile
  \/ CallGetProfile
  \/ \E x \in Peers \cup {0} : CallConnect(x)
  \/ \E n \in ProtocolNames : Protocol(n)
  \/ CallListen
  \/ CallClose
  \/ \E s \in 1..Len(swarms), x \in Peers : SwarmConnection(s, x)
  \/ \E c \in 1..Len(conns) : ConnClose(c)
  \/ \E c \in 1..Len(conns) : SocketOpen(c)
  \/ PkgListen
  \/ PkgUnlisten
  \/ \E x \in Peers : PkgConnect(x)
  \/ \E x \in Peers : PkgInbound(x)
  \/ CallPkgClose
  \/ \E t \in 1..Len(tasks) : ReadyDhtCreated(t)
  \/ \E t \in 1..Len(tasks) : ReadyDriveResolved(t)
  \/ \E t \in 1..Len(tasks) : DriveOpened(t)
  \/ \E t \in 1..Len(tasks) : DriveUpdated(t)
  \/ \E t \in 1..Len(tasks) : SetProfileReadyResolved(t)
  \/ \E t \in 1..Len(tasks) : SetProfilePut(t)
  \/ \E t \in 1..Len(tasks) : GetProfileReadyResolved(t)
  \/ \E t \in 1..Len(tasks) : GetProfileGot(t)
  \/ \E t \in 1..Len(tasks) : ListenReadyResolved(t)
  \/ \E t \in 1..Len(tasks) : ListenListening(t)
  \/ \E t \in 1..Len(tasks) : ListenRejected(t)
  \/ \E t \in 1..Len(tasks) : ConnectReadyResolved(t)
  \/ \E t \in 1..Len(tasks) : ConnectCaught(t)
  \/ \E t \in 1..Len(tasks) : CloseSwarmDestroyed(t)
  \/ \E t \in 1..Len(tasks) : CloseStoreClosed(t)
  \/ \E t \in 1..Len(tasks) : CloseStoreRejected(t)
  \/ \E t \in 1..Len(tasks) : PkgCloseJoined(t)
  \/ \E t \in 1..Len(tasks) : PkgStoreClosed(t)
  \/ \E t \in 1..Len(tasks) : PkgStoreRejected(t)
  \/ \E t \in 1..Len(tasks) : PkgUnlistened(t)
  \/ \E t \in 1..Len(tasks) : PkgSocketDestroyed(t)
  \/ \E t \in 1..Len(tasks) : PkgDhtDestroyed(t)

Spec == Init /\ [][Next]_vars

\* a program that uses the session and the drives only, with collaborators that
\* answer: every promise the code awaits (DHT.create(), drive.ready(),
\* drive.update(), put, get, swarm.destroy(), store.close()) settles
InitSession == Init /\ uses = Session
NextSession ==
  \/ CallReady
  \/ \E k \in DriveKeys : CallDrive(k)
  \/ CallSetProfile
  \/ CallGetProfile
  \/ CallClose
  \/ \E t \in 1..Len(tasks) : ReadyDhtCreated(t)
  \/ \E t \in 1..Len(tasks) : ReadyDriveResolved(t)
  \/ \E t \in 1..Len(tasks) : DriveOpened(t)
  \/ \E t \in 1..Len(tasks) : DriveUpdated(t)
  \/ \E t \in 1..Len(tasks) : SetProfileReadyResolved(t)
  \/ \E t \in 1..Len(tasks) : SetProfilePut(t)
  \/ \E t \in 1..Len(tasks) : GetProfileReadyResolved(t)
  \/ \E t \in 1..Len(tasks) : GetProfileGot(t)
  \/ \E t \in 1..Len(tasks) : CloseSwarmDestroyed(t)
  \/ \E t \in 1..Len(tasks) : CloseStoreClosed(t)
Settles ==
  /\ WF_vars(\E t \in 1..Len(tasks) : ReadyDhtCreated(t))
  /\ WF_vars(\E t \in 1..Len(tasks) : ReadyDriveResolved(t))
  /\ WF_vars(\E t \in 1..Len(tasks) : DriveOpened(t))
  /\ WF_vars(\E t \in 1..Len(tasks) : DriveUpdated(t))
  /\ WF_vars(\E t \in 1..Len(tasks) : SetProfileReadyResolved(t))
  /\ WF_vars(\E t \in 1..Len(tasks) : SetProfilePut(t))
  /\ WF_vars(\E t \in 1..Len(tasks) : GetProfileReadyResolved(t))
  /\ WF_vars(\E t \in 1..Len(tasks) : GetProfileGot(t))
  /\ WF_vars(\E t \in 1..Len(tasks) : CloseSwarmDestroyed(t))
  /\ WF_vars(\E t \in 1..Len(tasks) : CloseStoreClosed(t))
LiveSpec == InitSession /\ [][NextSession]_vars /\ Settles

\* ------------------------------------------------------------ properties
Calls == {Outcome(tasks[t]) : t \in 1..Len(tasks)}
Occurs(e) == Cardinality({i \in 1..Len(g.trace) : g.trace[i] = e})
Kind(i) == g.trace[i][1]
EmitsOf(ev, c) == SelectSeq(g.emits, LAMBDA e : e[1] = ev /\ e[3] = c)

\* C1: however many ready() calls are made, and however they overlap, one DHT and
\* one Hyperswarm are created, one 'connection' listener is wired, and no session
\* replaces another
C1_SingleInitialization ==
  /\ g.dhtCreated <= 1
  /\ Len(swarms) <= 1
  /\ g.wired <= 1
  /\ g.overwritten = 0

\* C2: when a ready() call resolves the swarm and the public drive exist, so a
\* setProfile() or getProfile() that awaited ready() finds a public drive
C2_ReadyMeansInitialized ==
  \A r \in g.results : r.op \in {"ready", "setProfile", "getProfile"} => r.init

\* C3: an identity whose closed flag is set holds no live swarm
C3_NoSessionAfterClose ==
  closed => (swarm = 0 \/ swarms[swarm].destroyed)

\* C4: a connect(), drive() or protocol() call made after close() has resolved asks
\* the transport for nothing and adds nothing to the drive cache, the protocol
\* registry or the joined topics
C4_NothingAfterClose ==
  /\ ~g.lateRegistered
  /\ \A r \in g.results \cup Calls : r.late => ~r.fx

\* C5: under any number of close() calls, each teardown step (session or DHT
\* destroy, store close, server close, the destroy of each socket) runs at most
\* once and 'close' is emitted at most once
C5_CloseOnce ==
  /\ \A i \in 1..Len(g.trace) : Occurs(g.trace[i]) = 1
  /\ \A c \in 1..Len(conns) : conns[c].destroys <= 1

\* C5 witness: close() was called twice and the teardown ran to its end
C5_Witness ==
  /\ g.closeCalls >= 2
  /\ closed
  /\ Occurs(<<"store", 0>>) = 1
  /\ CloseReturned

\* C6: close() sets the closed flag and emits 'close' before any teardown step,
\* and closes the store only after the transport session and its sockets
C6_CloseOrder ==
  \A i, j \in 1..Len(g.trace) :
    i < j =>
      /\ ~(Kind(i) \in {"session", "socket", "unlisten", "store"} /\ Kind(j) \in {"closed", "emit"})
      /\ ~(Kind(i) = "store" /\ Kind(j) \in {"session", "socket"})

\* C7: the listeners registered for 'close' when close() is called are each
\* invoked once, in registration order, when the identity closes; the listeners of
\* 'connection' are invoked once per connection, in registration order
C7_ListenersInvoked ==
  /\ closed => EmitsOf("close", 0)
                 = [i \in 1..Len(g.closeListeners) |-> <<"close", g.closeListeners[i].id, 0>>]
  /\ \A c \in 1..Len(conns) :
       \A i, j \in 1..Len(EmitsOf("connection", c)) :
         i < j => EmitsOf("connection", c)[i][2] < EmitsOf("connection", c)[j][2]

\* C8: a connect(X) made while the connection an earlier connect(X) returned is
\* still open returns that connection and asks the transport for no new one
C8_ConnectReuses ==
  \A r \in Results("connect") : r.prev # 0 => (r.ret = ConnVal(r.prev) /\ ~r.net)

\* C9: all drive() calls that resolve to key K return the handle cached for K,
\* and the discovery topic of K is joined once
C9_DriveSingleton ==
  \A k \in DriveKeys :
    /\ g.joins[k] <= 1
    /\ drives[k] # NoDrive => g.joins[k] = 1
    /\ \A r \in Results("drive") : r.arg = k => r.ret = DriveVal(drives[k])
    /\ (k = OwnKey /\ publicDrive # NoDrive) => publicDrive = drives[k]

\* C9 witness: two drive() calls of one key returned, one having cached the
\* handle and the other having found it
C9_Witness ==
  \E r1, r2 \in Results("drive") : r1.arg = r2.arg /\ r1.fx /\ ~r2.fx

\* C10: on a local identity at most one instance is constructed per protocol
\* name and every protocol() call of that name returns it
C10_ProtocolSingleton ==
  (impl = "core" /\ ~remote) =>
    \A n \in ProtocolNames :
      /\ g.constructed[n] <= 1
      /\ g.returned[n] \subseteq {protocols[n]}

\* C10 witness: protocol() was called twice with one name
C10_Witness ==
  \E n \in ProtocolNames : g.protocolCalls[n] >= 2 /\ g.constructed[n] = 1

\* C11: the channels of a connection are the protocols that were registered when
\* the connection was handled, one channel each, and stay so whatever is
\* registered later
C11_ChannelsAreRegistry ==
  \A c \in 1..Len(conns) :
    /\ conns[c].channels = conns[c].reg
    /\ Cardinality({i \in 1..Len(conns[c].log) : conns[c].log[i] = "channel"})
         = Cardinality(conns[c].reg)

\* C11 witness: a protocol was registered after a connection was handled and the
\* connection has no channel of it
C11_Witness ==
  \E c \in 1..Len(conns) : \E n \in ProtocolNames :
    /\ conns[c].swarm # 0
    /\ protocols[n] # 0
    /\ n \notin conns[c].channels

\* C15: on every handled connection replication is attached first, the channels
\* are created next and 'connection' is emitted last
C15_HandlerOrder ==
  \A c \in 1..Len(conns) :
    LET log == conns[c].log IN
    /\ log[1] = "replicate"
    /\ log[Len(log)] = "emit"
    /\ \A i \in 2..(Len(log) - 1) : log[i] = "channel"
    /\ Len(log) = Cardinality(conns[c].channels) + 2

\* C15 witness: a connection with a channel was announced to a 'connection' listener
C15_Witness ==
  \E c \in 1..Len(conns) :
    /\ conns[c].channels # {}
    /\ EmitsOf("connection", c) # <<>>

\* C12: on a remote identity every listen(), connect() and setProfile() call ends
\* in an error and creates no session, protocol() registers nothing, and nothing
\* is written to the public drive
C12_RemoteCallsFail ==
  remote =>
    /\ \A r \in g.results :
         r.op \in {"listen", "connect", "setProfile"} => (r.ret = Threw /\ ~r.sess)
    /\ \A r \in Calls : r.op \in {"listen", "connect", "setProfile"} => ~r.sess
    /\ \A n \in ProtocolNames : protocols[n] = 0
    /\ g.instances = 0
    /\ profile = 0

\* C14: between two unlisten() or close() calls the transport starts listening
\* at most once, whatever the number of listen() calls, and at most one listener
\* is active
C14_NoDuplicateListeners ==
  /\ g.listens <= 1
  /\ Cardinality({s \in 1..Len(swarms) : swarms[s].listening /\ ~swarms[s].destroyed}) <= 1

\* C13: once the close() that runs the teardown has resolved, every connection
\* handled before it was called has closed and none of them is in the socket
\* registry
C13_CloseClosesConnections ==
  g.closeDone =>
    \A c \in 1..g.atClose :
      /\ conns[c].state = "closed"
      /\ \A i \in 1..Len(sockets) : sockets[i].sock # c

\* C16: the remote identity of a connection's peerInfo is closed in the step in
\* which the connection closes, never before, and that step leaves the owner's
\* closed flag, session, drive cache and protocol registry as they were
C16_RemoteClosedAfterConnection ==
  [][/\ \A c \in 1..Len(conns) :
          conns'[c].rclosed # conns[c].rclosed =>
            /\ conns[c].state # "closed"
            /\ conns'[c].state = "closed"
            /\ UNCHANGED <<closed, isReady, swarm, publicDrive, drives, protocols>>
     /\ \A c \in 1..Len(conns') :
          (conns'[c].swarm # 0 /\ conns'[c].state = "closed") => conns'[c].rclosed]_vars

\* C16 witness: a connection of a live session has closed, and with it the remote
\* identity of its peer
C16_Witness ==
  \E c \in 1..Len(conns) :
    /\ conns[c].rclosed
    /\ ~closed
    /\ swarm # 0
    /\ drives[OwnKey] # NoDrive

\* C17: when the store's close has rejected and no close() is pending, the
\* identity is closed, every socket that was registered has been destroyed or has
\* closed, and the session or the owned DHT has been destroyed
C17_TeardownSurvivesFailure ==
  (g.rejected /\ \A t \in 1..Len(tasks) : tasks[t].op # "close") =>
    /\ closed
    /\ \A c \in 1..g.atClose : conns[c].destroys > 0 \/ conns[c].state = "closed"
    /\ (impl = "core" \/ shouldDestroyDHT) => \E i \in 1..Len(g.trace) : Kind(i) = "session"

\* C18: the socket registry holds no socket that has closed, so no connect()
\* returns one: after a failed attempt connect() asks the DHT again
C18_FailedConnectForgotten ==
  /\ \A i \in 1..Len(sockets) : conns[sockets[i].sock].state # "closed"
  /\ \A r \in Results("connect") : ~r.stale

\* C18 witness: an outbound socket closed before it opened and a later connect()
\* to the same key made a new socket
C18_Witness ==
  /\ \A c \in 1..Len(conns) : conns[c].out
  /\ \E c, d \in 1..Len(conns) :
       /\ c < d
       /\ conns[c].failed
       /\ conns[d].peer = conns[c].peer
       /\ impl = "pkg"

\* C19: the newest socket handled for a key stays registered under that key for
\* as long as it has not closed and is not being destroyed, whichever older
\* socket of the key closes
C19_CloseRemovesOwnEntry ==
  impl = "pkg" =>
    \A c \in 1..Len(conns) :
      (/\ conns[c].state \in {"opening", "open"}
       /\ \A d \in 1..Len(conns) : conns[d].peer = conns[c].peer => d <= c)
        => SocketsGet(conns[c].peer) = c

\* call i is a pending call that has a ready() among its frames
PendingReady(i) ==
  \E t \in 1..Len(tasks) :
    /\ tasks[t].id = i
    /\ \E j \in 1..Len(tasks[t].stack) : tasks[t].stack[j].fn = "ready"

\* C20: when the collaborators settle, every ready() that is pending, called by
\* the program or by drive(), setProfile() or getProfile(), returns: again and
\* again no ready() is pending
C20_ReadyTerminates ==
  []<>(\A i \in 1..MaxCalls : ~PendingReady(i))

\* C20 witness: two ready() calls overlapped, each went through this.drive(), and
\* both have returned
C20_Witness ==
  /\ g.dhtCreated >= 2
  /\ Cardinality({r \in g.results : r.sess}) >= 1
  /\ \A i \in 1..MaxCalls : ~PendingReady(i)
  /\ publicDrive # NoDrive
====
